---- MODULE Spec2Model ----
(***************************************************************************)
(* A model of simple-aws-s3: AWS Signature Version 4 signing of S3 object  *)
(* requests, presigned GET URLs and presigned POST policies.               *)
(*                                                                         *)
(* Text is a sequence of atoms.  An atom is one ASCII character, written   *)
(* as a one-character string, or one opaque digest produced by Hmac,       *)
(* Sha256 or HexEncode.  Instants are milliseconds since                   *)
(* 2013-05-24T00:00:00Z (chrono keeps nanoseconds; one model unit is one   *)
(* millisecond).                                                           *)
(***************************************************************************)
EXTENDS Integers, Sequences, FiniteSets, TLC

VARIABLES
    s3,              \* struct S3: bucket, region, endpoint, access_key, secret_key
    clock,           \* the wall clock read by Utc::now()
    pc,              \* position of the running call
    args,            \* arguments of the running call
    now,             \* local `now` of the running call (-1: not yet read)
    fields,          \* local `fields` of generate_presigned_post (HashMap)
    policy,          \* local `policy` of generate_presigned_post
    req,             \* local `req`: method, url, headers
    signed_headers,  \* local `signed_headers` of prepare_simple_object_method
    string_to_sign,  \* local `string_to_sign`
    sign,            \* local `sign` / `signature`
    ret,             \* what the call returned
    transport        \* the exchanges self.client carried out during the running call

vars == <<s3, clock, pc, args, now, fields, policy, req, signed_headers,
          string_to_sign, sign, ret, transport>>

-----------------------------------------------------------------------------
(* Text *)

\* The printable ASCII characters in byte order, from 0x20 to 0x7E (0x60, which
\* the model's texts never hold, is spelled out).
Ascii == <<" ", "!", "\"", "#", "$", "%", "&", "'", "(", ")", "*", "+", ",", "-", ".", "/", "0", "1", "2", "3", "4", "5", "6", "7", "8", "9", ":", ";", "<", "=", ">", "?", "@", "A", "B", "C", "D", "E", "F", "G", "H", "I", "J", "K", "L", "M", "N", "O", "P", "Q", "R", "S", "T", "U", "V", "W", "X", "Y", "Z", "[", "\\", "]", "^", "_", "grave", "a", "b", "c", "d", "e", "f", "g", "h", "i", "j", "k", "l", "m", "n", "o", "p", "q", "r", "s", "t", "u", "v", "w", "x", "y", "z", "{", "|", "}", "~">>

AsciiChars == {Ascii[i] : i \in 1..Len(Ascii)}

\* The byte of a printable character
CodeOf == [c \in AsciiChars |-> 31 + (CHOOSE i \in 1..Len(Ascii) : Ascii[i] = c)]
Code(c) == CodeOf[c]

\* Characters outside the printable range: control characters, and bytes of
\* obs-text (0x80..0xFF), which a HeaderValue may hold and a str may not
ControlChars == {"\n", "\t", "\r", "\f", "0x08"}
ObsText == {"0xE9", "0xFF"}

\* The byte of a character; a digest is left whole
Byte(c) ==
    IF c \in AsciiChars THEN Code(c)
    ELSE CASE c = "0x08" -> 8
           [] c = "\t" -> 9
           [] c = "\n" -> 10
           [] c = "\f" -> 12
           [] c = "\r" -> 13
           [] c = "0xE9" -> 233
           [] c = "0xFF" -> 255
           [] OTHER -> c

\* str::as_bytes
as_bytes(s) == [i \in 1..Len(s) |-> Byte(s[i])]

IsUpper(c) == \E i \in 34..59 : Ascii[i] = c

\* char::to_lowercase on ASCII: 'A'..'Z' move by 32, the rest stay.
LowerChar(c) == IF IsUpper(c) THEN Ascii[(Code(c) - 31) + 32] ELSE c

\* str::to_lowercase
to_lowercase(s) == [i \in 1..Len(s) |-> LowerChar(s[i])]

\* Ord for str: byte-wise lexicographic, a proper prefix first.
RECURSIVE StrLess(_, _)
StrLess(a, b) ==
    IF b = <<>> THEN FALSE
    ELSE IF a = <<>> THEN TRUE
    ELSE IF Head(a) # Head(b) THEN Byte(Head(a)) < Byte(Head(b))
    ELSE StrLess(Tail(a), Tail(b))

IsSpace(c) == c \in {" ", "\t", "\n", "\r"}

RECURSIVE TrimStart(_)
TrimStart(s) ==
    IF s # <<>> /\ IsSpace(Head(s)) THEN TrimStart(Tail(s)) ELSE s

RECURSIVE TrimEnd(_)
TrimEnd(s) ==
    IF s # <<>> /\ IsSpace(s[Len(s)]) THEN TrimEnd(SubSeq(s, 1, Len(s) - 1)) ELSE s

\* str::trim
trim(s) == TrimEnd(TrimStart(s))

Digit(d) == Ascii[17 + d]

RECURSIVE NatToString(_)
NatToString(n) ==
    IF n < 10 THEN <<Digit(n)>> ELSE Append(NatToString(n \div 10), Digit(n % 10))

\* Display for i32; the digits of a negative number are those of -(n + 1) with
\* the last one raised, so that i32::MIN needs no number past i32::MAX
I32ToString(n) ==
    IF n >= 0 THEN NatToString(n)
    ELSE LET m == -(n + 1)
         IN  IF m % 10 = 9
             THEN <<"-">> \o NatToString((m \div 10) + 1) \o <<"0">>
             ELSE <<"-">> \o (IF m < 10 THEN <<>> ELSE NatToString(m \div 10))
                  \o <<Digit((m % 10) + 1)>>

\* Two digits, zero padded: chrono's %m %d %H %M %S
Pad2(n) == <<Digit(n \div 10), Digit(n % 10)>>

\* slice::join
RECURSIVE Join(_, _)
Join(ss, sep) ==
    IF ss = <<>> THEN <<>>
    ELSE IF Len(ss) = 1 THEN ss[1]
    ELSE ss[1] \o sep \o Join(Tail(ss), sep)

\* Result<T, E>
Ok(v) == [ok |-> TRUE, val |-> v]
Err(e) == [ok |-> FALSE, val |-> e]

\* error.rs: Error::SignError(String) and Error::RequestError(reqwest::Error)
SignError(msg) == [variant |-> "SignError", e |-> msg]
RequestError(e) == [variant |-> "RequestError", e |-> e]

\* impl From<InvalidKeyLength> for Error
From_InvalidKeyLength(e) == SignError(e)

\* impl From<reqwest::Error> for Error
From_reqwest_Error(e) == RequestError(e)

-----------------------------------------------------------------------------
(* constant.rs *)

S3_ALGO_KEY == <<"X", "-", "A", "m", "z", "-", "A", "l", "g", "o", "r", "i", "t", "h", "m">>
S3_CRED_KEY == <<"X", "-", "A", "m", "z", "-", "C", "r", "e", "d", "e", "n", "t", "i", "a", "l">>
S3_DATE_KEY == <<"X", "-", "A", "m", "z", "-", "D", "a", "t", "e">>
S3_SIGNATURE_KEY == <<"X", "-", "A", "m", "z", "-", "S", "i", "g", "n", "a", "t", "u", "r", "e">>
S3_EXPIRES_KEY == <<"X", "-", "A", "m", "z", "-", "E", "x", "p", "i", "r", "e", "s">>
S3_SIGNED_HEADERS_KEY == <<"X", "-", "A", "m", "z", "-", "S", "i", "g", "n", "e", "d", "H", "e", "a", "d", "e", "r", "s">>
S3_CONTENT_KEY == <<"X", "-", "A", "m", "z", "-", "C", "o", "n", "t", "e", "n", "t", "-", "S", "h", "a", "2", "5", "6">>
S3_ALGO_VALUE == <<"A", "W", "S", "4", "-", "H", "M", "A", "C", "-", "S", "H", "A", "2", "5", "6">>

-----------------------------------------------------------------------------
(* chrono: DateTime<Utc> and its formats.  The model's instants lie in     *)
(* 2013-05-24 .. 2013-05-31, so year and month are fixed text.             *)

DayOf(t) == t \div 86400000
SecondOfDay(t) == (t % 86400000) \div 1000

\* date.format("%Y%m%d")
FormatYmd(t) == <<"2", "0", "1", "3", "0", "5">> \o Pad2(24 + DayOf(t))

HourMinSec(t) ==
    LET s == SecondOfDay(t)
    IN  <<s \div 3600, (s % 3600) \div 60, s % 60>>

\* date.format("%Y%m%dT%H%M%SZ"): the sub-second part is dropped
FormatYmdTHmsZ(t) ==
    LET hms == HourMinSec(t)
    IN  FormatYmd(t) \o <<"T">> \o Pad2(hms[1]) \o Pad2(hms[2]) \o Pad2(hms[3]) \o <<"Z">>

\* date.to_rfc3339_opts(SecondsFormat::Secs, true): the sub-second part is dropped
to_rfc3339_secs(t) ==
    LET hms == HourMinSec(t)
    IN  <<"2", "0", "1", "3", "-", "0", "5", "-">> \o Pad2(24 + DayOf(t)) \o <<"T">>
        \o Pad2(hms[1]) \o <<":">> \o Pad2(hms[2]) \o <<":">> \o Pad2(hms[3]) \o <<"Z">>

-----------------------------------------------------------------------------
(* sha2, hmac, hex, base64: a digest is one opaque atom, a different one   *)
(* for each different input.  The inputs are bytes: see as_bytes.          *)

\* HmacSha256 keyed by `key` over `data`: the raw 32 bytes
HmacSha256(key, data) == <<ToString(<<"hmac", key, data>>)>>

\* Sha256 of `data`: the raw 32 bytes
Sha256(data) == <<ToString(<<"sha256", data>>)>>

\* hex::encode
HexEncode(bytes) == <<ToString(<<"hex", bytes>>)>>

\* HmacSha256::new_from_slice: HMAC takes a key of any length
new_from_slice(key) == Ok(key)

-----------------------------------------------------------------------------
(* s3_signer.rs *)

\* A slip in step 2: the hex text of the date key is used as the next key.
signing_hasher_hexkey(secret_key, region, date) ==
    LET h == new_from_slice(as_bytes(<<"A", "W", "S", "4">> \o secret_key))
        date_key == HmacSha256(h.val, as_bytes(FormatYmd(date)))
        date_region_key == HmacSha256(as_bytes(HexEncode(date_key)), as_bytes(region))
        date_region_service_key == HmacSha256(date_region_key, as_bytes(<<"s", "3">>))
        signing_key == HmacSha256(date_region_service_key,
                           as_bytes(<<"a", "w", "s", "4", "_", "r", "e", "q", "u", "e", "s", "t">>))
    IN  new_from_slice(signing_key)

\* Signer::signing_hasher: the HMAC instance keyed by the signing key, or
\* InvalidKeyLength from the first new_from_slice that fails
signing_hasher(secret_key, region, date) ==
    LET h == new_from_slice(as_bytes(<<"A", "W", "S", "4">> \o secret_key))
    IN  IF ~h.ok THEN h
        ELSE
        LET date_key == HmacSha256(h.val, as_bytes(FormatYmd(date)))
            date_region_h == new_from_slice(date_key)
        IN  IF ~date_region_h.ok THEN date_region_h
            ELSE
            LET date_region_key == HmacSha256(date_region_h.val, as_bytes(region))
                date_region_service_h == new_from_slice(date_region_key)
            IN  IF ~date_region_service_h.ok THEN date_region_service_h
                ELSE
                LET date_region_service_key ==
                        HmacSha256(date_region_service_h.val, as_bytes(<<"s", "3">>))
                    signing_key_h == new_from_slice(date_region_service_key)
                IN  IF ~signing_key_h.ok THEN signing_key_h
                    ELSE
                    LET signing_key ==
                            HmacSha256(signing_key_h.val,
                                as_bytes(<<"a", "w", "s", "4", "_", "r", "e", "q", "u", "e", "s", "t">>))
                    IN  new_from_slice(signing_key)

\* Signer::sign
Signer_sign(secret_key, region, date, sts) ==
    LET key == signing_hasher(secret_key, region, date)
    IN  IF ~key.ok THEN key
        ELSE Ok(HexEncode(HmacSha256(key.val, as_bytes(sts))))

-----------------------------------------------------------------------------
(* url: Url of an https URL *)

\* The index of the first `c` of s at or after i, or Len(s) + 1
IndexFrom(s, c, i) ==
    LET hits == {j \in i..Len(s) : s[j] = c}
    IN  IF hits = {} THEN Len(s) + 1 ELSE CHOOSE j \in hits : \A k \in hits : j <= k

IsUnreserved(c) ==
    \/ \E i \in 17..26 : Ascii[i] = c
    \/ \E i \in 34..59 : Ascii[i] = c
    \/ \E i \in 66..91 : Ascii[i] = c
    \/ c \in {"*", "-", ".", "_"}

HexDigits == <<"0", "1", "2", "3", "4", "5", "6", "7", "8", "9", "A", "B", "C", "D", "E", "F">>

\* form_urlencoded::byte_serialize of one atom: unreserved characters (and the
\* hex text of a digest) stay, a space becomes '+', another byte becomes %XX
ByteSerialize(c) ==
    IF c = " " THEN <<"+">>
    ELSE IF c \in AsciiChars /\ ~IsUnreserved(c)
         THEN <<"%", HexDigits[(Code(c) \div 16) + 1], HexDigits[(Code(c) % 16) + 1]>>
         ELSE <<c>>

RECURSIVE FormEncode(_)
FormEncode(s) == IF s = <<>> THEN <<>> ELSE ByteSerialize(Head(s)) \o FormEncode(Tail(s))

\* Url::parse of "https://{host}/{rest}": the fragment starts at the first '#',
\* the query at the first '?' before it; the host is lower-cased.  query and
\* fragment are Option<String>.
Url_parse(host, rest) ==
    LET h == IndexFrom(rest, "#", 1)
        beforeFrag == SubSeq(rest, 1, h - 1)
        q == IndexFrom(beforeFrag, "?", 1)
    IN  [host |-> to_lowercase(host),
         path |-> <<"/">> \o SubSeq(beforeFrag, 1, q - 1),
         query |-> IF q > Len(beforeFrag) THEN Err(<<>>)
                   ELSE Ok(SubSeq(beforeFrag, q + 1, Len(beforeFrag))),
         fragment |-> IF h > Len(rest) THEN Err(<<>>)
                      ELSE Ok(SubSeq(rest, h + 1, Len(rest)))]

\* A slip: the query the key brought is kept
query_kept(url) == url

\* url.query_pairs_mut().clear()
query_clear(url) == [url EXCEPT !.query = Ok(<<>>)]

\* url.query_pairs_mut().append_pair(name, value)
append_pair(url, name, value) ==
    LET old == IF url.query.ok THEN url.query.val ELSE <<>>
        sep == IF old = <<>> THEN <<>> ELSE <<"&">>
    IN  [url EXCEPT !.query = Ok(old \o sep \o FormEncode(name) \o <<"=">> \o FormEncode(value))]

\* url.query().unwrap_or("")
query_or_empty(url) == IF url.query.ok THEN url.query.val ELSE <<>>

\* url.to_string()
Url_to_string(url) ==
    <<"h", "t", "t", "p", "s", ":", "/", "/">> \o url.host \o url.path
    \o (IF url.query.ok THEN <<"?">> \o url.query.val ELSE <<>>)
    \o (IF url.fragment.ok THEN <<"#">> \o url.fragment.val ELSE <<>>)

-----------------------------------------------------------------------------
(* http: HeaderMap, in iteration order, as a sequence of <<name, value>> *)

\* HeaderValue::to_str: Err when a byte is not visible ASCII, space or tab
to_str(value) ==
    IF \E i \in 1..Len(value) : value[i] \in ObsText THEN Err(<<>>) ELSE Ok(value)

\* HeaderMap::insert: the name is lower-cased; a name already present keeps its
\* place and takes the new value, a new name goes last
HeaderMap_insert(headers, name, value) ==
    LET n == to_lowercase(name)
    IN  IF \E i \in 1..Len(headers) : headers[i][1] = n
        THEN [i \in 1..Len(headers) |->
                 IF headers[i][1] = n THEN <<n, value>> ELSE headers[i]]
        ELSE Append(headers, <<n, value>>)

\* Request::new
Request_new(method, url) == [method |-> method, url |-> url, headers |-> <<>>, body |-> Err(<<>>)]

-----------------------------------------------------------------------------
(* s3_string_to_sign.rs *)

\* CanonicalRequest::payload_hex
payload_hex(r) == HexEncode(Sha256(IF r.body.ok THEN r.body.val ELSE <<>>))

\* CanonicalRequest::signed_header
signed_header(r) ==
    Join([i \in 1..Len(r.headers) |-> to_lowercase(r.headers[i][1])], <<";">>)

RECURSIVE CanonicalHeaderLines(_)
CanonicalHeaderLines(headers) ==
    IF headers = <<>> THEN <<>>
    ELSE LET name == to_lowercase(Head(headers)[1])
             v == to_str(Head(headers)[2])
             value == trim(IF v.ok THEN v.val ELSE <<>>)
         IN  name \o <<":">> \o value \o <<"\n">> \o CanonicalHeaderLines(Tail(headers))

\* CanonicalRequest::canonical_header
canonical_header(r) == CanonicalHeaderLines(r.headers)

\* The text canonical_hex hashes
canonical_text(r, include_payload) ==
    r.method \o <<"\n">>
    \o r.url.path \o <<"\n">>
    \o query_or_empty(r.url) \o <<"\n">>
    \o canonical_header(r) \o <<"\n">>
    \o signed_header(r) \o <<"\n">>
    \o (IF include_payload THEN payload_hex(r)
        ELSE <<"U", "N", "S", "I", "G", "N", "E", "D", "-", "P", "A", "Y", "L", "O", "A", "D">>)

\* CanonicalRequest::canonical_hex
canonical_hex(r, include_payload) ==
    HexEncode(Sha256(as_bytes(canonical_text(r, include_payload))))

\* scope
scope(region, date) ==
    FormatYmd(date) \o <<"/">> \o region
    \o <<"/", "s", "3", "/", "a", "w", "s", "4", "_", "r", "e", "q", "u", "e", "s", "t">>

\* string_to_sign (the free function)
string_to_sign_of(hex, region, date) ==
    S3_ALGO_VALUE \o <<"\n">> \o FormatYmdTHmsZ(date) \o <<"\n">>
    \o scope(region, date) \o <<"\n">> \o hex

-----------------------------------------------------------------------------
(* serde_json: Value, as <<kind, content>>, and from_str.  A parse yields   *)
(* [ok, pos, val]: pos is the index after the value.                       *)
(* Numbers are integers: no text of the model holds a fraction or an       *)
(* exponent.                                                               *)

JStr(s) == <<"str", s>>
JNum(n) == <<"num", n>>
JArr(a) == <<"arr", a>>
JObj(m) == <<"obj", m>>
JLit(l) == <<"lit", l>>

Parsed(pos, val) == [ok |-> TRUE, pos |-> pos, val |-> val]
ParseError == [ok |-> FALSE, pos |-> 0, val |-> <<>>]

RECURSIVE SkipWs(_, _)
SkipWs(s, i) ==
    IF i <= Len(s) /\ IsSpace(s[i]) THEN SkipWs(s, i + 1) ELSE i

IsDigit(c) == \E i \in 17..26 : Ascii[i] = c
DigitValue(c) == Code(c) - 48

\* The character a one-letter escape stands for
Unescape(e) ==
    CASE e = "n" -> "\n"
      [] e = "t" -> "\t"
      [] e = "r" -> "\r"
      [] e = "f" -> "\f"
      [] e = "b" -> "0x08"
      [] OTHER -> e

\* The rest of a string whose opening quote ends at i - 1
RECURSIVE ParseStr(_, _, _)
ParseStr(s, i, acc) ==
    IF i > Len(s) THEN ParseError
    ELSE IF s[i] = "\"" THEN Parsed(i + 1, acc)
    ELSE IF s[i] = "\\" THEN
        IF i + 1 > Len(s) THEN ParseError
        ELSE IF s[i + 1] \in {"\"", "\\", "/", "b", "f", "n", "r", "t"}
             THEN ParseStr(s, i + 2, Append(acc, Unescape(s[i + 1])))
        ELSE IF s[i + 1] = "u" /\ i + 5 <= Len(s)
                /\ \A k \in (i + 2)..(i + 5) :
                       \E d \in 1..Len(HexDigits) : HexDigits[d] = s[k] \/ to_lowercase(<<HexDigits[d]>>) = <<s[k]>>
             THEN ParseStr(s, i + 6, Append(acc, ToString(SubSeq(s, i, i + 5))))
        ELSE ParseError
    ELSE IF s[i] \in ControlChars THEN ParseError
    ELSE ParseStr(s, i + 1, Append(acc, s[i]))

\* The digits from i on, added to acc with the sign sgn (1 or -1)
RECURSIVE ParseDigits(_, _, _, _)
ParseDigits(s, i, sgn, acc) ==
    IF i <= Len(s) /\ IsDigit(s[i])
    THEN ParseDigits(s, i + 1, sgn, acc * 10 + sgn * DigitValue(s[i]))
    ELSE Parsed(i, acc)

\* An integer whose first digit is at i: a leading 0 stands alone
ParseInt(s, i, sgn) ==
    IF i > Len(s) \/ ~IsDigit(s[i]) THEN ParseError
    ELSE IF s[i] = "0" THEN
        IF i + 1 <= Len(s) /\ IsDigit(s[i + 1]) THEN ParseError ELSE Parsed(i + 1, 0)
    ELSE ParseDigits(s, i, sgn, 0)

StartsWith(s, i, w) == i + Len(w) - 1 <= Len(s) /\ SubSeq(s, i, i + Len(w) - 1) = w

\* A parsed string or number r as a parsed Value
StrValue(r) == IF r.ok THEN Parsed(r.pos, JStr(r.val)) ELSE ParseError
NumValue(r) == IF r.ok THEN Parsed(r.pos, JNum(r.val)) ELSE ParseError

RECURSIVE ParseValue(_, _), ParseMembers(_, _, _), ParseElems(_, _, _)

\* After a member: '}' ends the object m, ',' leads to the next key
MemberEnd(s, e, m) ==
    IF e > Len(s) THEN ParseError
    ELSE IF s[e] = "}" THEN Parsed(e + 1, JObj(m))
    ELSE IF s[e] = "," THEN ParseMembers(s, SkipWs(s, e + 1), m)
    ELSE ParseError

\* The member key: v is read; a key read again takes the later value
AfterMember(s, key, v, acc) ==
    IF ~v.ok THEN ParseError
    ELSE MemberEnd(s, SkipWs(s, v.pos),
                   [x \in DOMAIN acc \cup {key} |-> IF x = key THEN v.val ELSE acc[x]])

\* After a key: ':' and the value
AfterKey(s, key, c, acc) ==
    IF c > Len(s) \/ s[c] # ":" THEN ParseError
    ELSE AfterMember(s, key, ParseValue(s, SkipWs(s, c + 1)), acc)

KeyRead(s, k, acc) ==
    IF ~k.ok THEN ParseError ELSE AfterKey(s, k.val, SkipWs(s, k.pos), acc)

\* The members of an object from the key at i on; acc maps the keys read so far
ParseMembers(s, i, acc) ==
    IF i > Len(s) \/ s[i] # "\"" THEN ParseError
    ELSE KeyRead(s, ParseStr(s, i + 1, <<>>), acc)

\* After an element: ']' ends the array a, ',' leads to the next element
ElemEnd(s, e, a) ==
    IF e > Len(s) THEN ParseError
    ELSE IF s[e] = "]" THEN Parsed(e + 1, JArr(a))
    ELSE IF s[e] = "," THEN ParseElems(s, SkipWs(s, e + 1), a)
    ELSE ParseError

AfterElem(s, v, acc) ==
    IF ~v.ok THEN ParseError ELSE ElemEnd(s, SkipWs(s, v.pos), Append(acc, v.val))

\* The elements of an array from the value at i on
ParseElems(s, i, acc) == AfterElem(s, ParseValue(s, i), acc)

\* An object whose '{' and white space end at j - 1
ParseObject(s, j) ==
    IF j <= Len(s) /\ s[j] = "}" THEN Parsed(j + 1, JObj(<<>>)) ELSE ParseMembers(s, j, <<>>)

\* An array whose '[' and white space end at j - 1
ParseArray(s, j) ==
    IF j <= Len(s) /\ s[j] = "]" THEN Parsed(j + 1, JArr(<<>>)) ELSE ParseElems(s, j, <<>>)

\* The value that starts at i (white space skipped by the caller)
ParseValue(s, i) ==
    IF i > Len(s) THEN ParseError
    ELSE IF s[i] = "\"" THEN StrValue(ParseStr(s, i + 1, <<>>))
    ELSE IF s[i] = "{" THEN ParseObject(s, SkipWs(s, i + 1))
    ELSE IF s[i] = "[" THEN ParseArray(s, SkipWs(s, i + 1))
    ELSE IF s[i] = "-" THEN NumValue(ParseInt(s, i + 1, -1))
    ELSE IF IsDigit(s[i]) THEN NumValue(ParseInt(s, i, 1))
    ELSE IF StartsWith(s, i, <<"t", "r", "u", "e">>) THEN Parsed(i + 4, JLit(SubSeq(s, i, i + 3)))
    ELSE IF StartsWith(s, i, <<"f", "a", "l", "s", "e">>) THEN Parsed(i + 5, JLit(SubSeq(s, i, i + 4)))
    ELSE IF StartsWith(s, i, <<"n", "u", "l", "l">>) THEN Parsed(i + 4, JLit(SubSeq(s, i, i + 3)))
    ELSE ParseError

\* One value r, with nothing but white space after it
WholeText(s, r) ==
    IF r.ok /\ SkipWs(s, r.pos) = Len(s) + 1 THEN Ok(r.val) ELSE Err(<<"json">>)

\* serde_json::from_str
from_str(s) == WholeText(s, ParseValue(s, SkipWs(s, 1)))

-----------------------------------------------------------------------------
(* s3_post_policy.rs.  A call that panics yields Panicked.                 *)

Panicked == Err(<<"panic">>)

\* format!(r#"{{ "{}": "{}" }}"#, key, value)
FormatMatch(key, value) ==
    <<"{", " ", "\"">> \o key \o <<"\"", ":", " ", "\"">> \o value \o <<"\"", " ", "}">>

\* format!(r#"["{}", {}, {}]"#, key, from, to)
FormatRange(key, from, to) ==
    <<"[", "\"">> \o key \o <<"\"", ",", " ">> \o I32ToString(from) \o <<",", " ">>
    \o I32ToString(to) \o <<"]">>

\* self.0.push(parsed.unwrap()): the unwrap panics on Err
PushUnwrap(c, parsed) == IF parsed.ok THEN Ok(Append(c, parsed.val)) ELSE Panicked

\* Conditions::insert_match on the clauses c
insert_match(c, key, value) == PushUnwrap(c, from_str(FormatMatch(key, value)))

\* Conditions::insert_range_number on the clauses c
insert_range_number(c, key, from, to) == PushUnwrap(c, from_str(FormatRange(key, from, to)))

\* for (key, value) in fields.iter() { conditions.insert_match(key, value) },
\* with the keys in the map's iteration order; r is the clauses so far
RECURSIVE InsertFields(_, _, _)
InsertFields(r, fieldMap, order) ==
    IF ~r.ok \/ order = <<>> THEN r
    ELSE InsertFields(insert_match(r.val, Head(order), fieldMap[Head(order)]),
                      fieldMap, Tail(order))

\* conditions.insert_match("bucket", bucket) after the range clause
InsertBucket(r, bucket) ==
    IF ~r.ok THEN r ELSE insert_match(r.val, <<"b", "u", "c", "k", "e", "t">>, bucket)

\* Conditions::new; `order` is the iteration order of the HashMap `fields`
Conditions_new(content_length_range, bucket, fieldMap, order) ==
    InsertFields(
        InsertBucket(
            insert_range_number(<<>>,
                <<"c", "o", "n", "t", "e", "n", "t", "-", "l", "e", "n", "g", "t", "h", "-", "r", "a", "n", "g", "e">>,
                content_length_range[1], content_length_range[2]),
            bucket),
        fieldMap, order)

\* Policy::new; the conditions are the Result of Conditions::new, whose panic
\* the policy passes on
Policy_new(expiration, conditions) ==
    IF conditions.ok
    THEN Ok([expiration |-> to_rfc3339_secs(expiration), conditions |-> conditions.val])
    ELSE conditions

\* Policy::init; utc_now is what its Utc::now() reads
Policy_init(utc_now, expire_on, bucket, content_length_range, fieldMap, order) ==
    Policy_new(utc_now + expire_on,
               Conditions_new(content_length_range, bucket, fieldMap, order))

\* The escape serde_json writes for a character of a string
EscapeChar(c) ==
    CASE c = "\"" -> <<"\\", "\"">>
      [] c = "\\" -> <<"\\", "\\">>
      [] c = "\n" -> <<"\\", "n">>
      [] c = "\t" -> <<"\\", "t">>
      [] c = "\r" -> <<"\\", "r">>
      [] c = "\f" -> <<"\\", "f">>
      [] c = "0x08" -> <<"\\", "b">>
      [] OTHER -> <<c>>

RECURSIVE EscapeStr(_)
EscapeStr(s) == IF s = <<>> THEN <<>> ELSE EscapeChar(Head(s)) \o EscapeStr(Tail(s))

WriteStr(s) == <<"\"">> \o EscapeStr(s) \o <<"\"">>

\* The keys of a Map (a BTreeMap) in its iteration order: sorted
RECURSIVE SortedKeys(_)
SortedKeys(K) ==
    IF K = {} THEN <<>>
    ELSE LET m == CHOOSE k \in K : \A o \in K \ {k} : StrLess(k, o)
         IN  <<m>> \o SortedKeys(K \ {m})

\* Serialize for Value, compact
RECURSIVE WriteValue(_)
WriteValue(v) ==
    CASE v[1] = "str" -> WriteStr(v[2])
      [] v[1] = "num" -> I32ToString(v[2])
      [] v[1] = "lit" -> v[2]
      [] v[1] = "arr" ->
             <<"[">> \o Join([i \in 1..Len(v[2]) |-> WriteValue(v[2][i])], <<",">>) \o <<"]">>
      [] v[1] = "obj" ->
             LET ks == SortedKeys(DOMAIN v[2])
             IN  <<"{">>
                 \o Join([i \in 1..Len(ks) |->
                             WriteStr(ks[i]) \o <<":">> \o WriteValue(v[2][ks[i]])], <<",">>)
                 \o <<"}">>

\* serde_json::to_string(policy)
to_string(p) ==
    <<"{">> \o WriteStr(<<"e", "x", "p", "i", "r", "a", "t", "i", "o", "n">>) \o <<":">>
    \o WriteStr(p.expiration) \o <<",">>
    \o WriteStr(<<"c", "o", "n", "d", "i", "t", "i", "o", "n", "s">>) \o <<":">>
    \o WriteValue(JArr(p.conditions)) \o <<"}">>

\* base64::encode
base64_encode(bytes) == <<ToString(<<"base64", bytes>>)>>

\* Policy::encode
Policy_encode(p) == base64_encode(as_bytes(to_string(p)))

\* A slip: the policy variant gets an algorithm line in front, as the others do
string_to_sign_policy_prefixed(a) ==
    CASE a.type = "AuthorizationHeader" ->
             string_to_sign_of(canonical_hex(a.req, TRUE), a.region, a.date)
      [] a.type = "QueryParams" ->
             string_to_sign_of(canonical_hex(a.req, FALSE), a.region, a.date)
      [] a.type = "PostRequest" -> S3_ALGO_VALUE \o <<"\n">> \o Policy_encode(a.policy)

\* AuthRequestType::string_to_sign
AuthRequestType_string_to_sign(a) ==
    CASE a.type = "AuthorizationHeader" ->
             string_to_sign_of(canonical_hex(a.req, TRUE), a.region, a.date)
      [] a.type = "QueryParams" ->
             string_to_sign_of(canonical_hex(a.req, FALSE), a.region, a.date)
      [] a.type = "PostRequest" -> Policy_encode(a.policy)

-----------------------------------------------------------------------------
(* s3.rs: the facade *)

I32_MAX == 2147483647

\* a + b on i32 for b >= 0: a sum past i32::MAX panics in a build with overflow
\* checks and wraps around in a build without them
i32_add(a, b, overflow_checks) ==
    IF a > I32_MAX - b
    THEN IF overflow_checks THEN Panicked
         ELSE Ok((a - I32_MAX - 1) + (b - I32_MAX - 1))
    ELSE Ok(a + b)

\* A slip: the virtual-hosted URL where the path-style one is due
virtual_hosted_url(s) ==
    <<"h", "t", "t", "p", "s", ":", "/", "/">> \o s.bucket \o <<".">> \o s.region \o <<".">>
    \o s.endpoint

\* S3::private_url
private_url(s) ==
    <<"h", "t", "t", "p", "s", ":", "/", "/">> \o s.region \o <<".">> \o s.endpoint
    \o <<"/">> \o s.bucket

\* The host of S3::public_url
public_host(s) == s.bucket \o <<".">> \o s.region \o <<".">> \o s.endpoint

\* S3::public_url
public_url(s) == <<"h", "t", "t", "p", "s", ":", "/", "/">> \o public_host(s)

\* S3::credential
credential(s, date) ==
    s.access_key \o <<"/">> \o FormatYmd(date) \o <<"/">> \o s.region
    \o <<"/", "s", "3", "/", "a", "w", "s", "4", "_", "r", "e", "q", "u", "e", "s", "t">>

\* A slip: the credential scope takes a fresh clock reading
format_authorization_fresh_now(s, signedHeaders, sig, date) ==
    S3_ALGO_VALUE \o <<" ", "C", "r", "e", "d", "e", "n", "t", "i", "a", "l", "=">>
    \o credential(s, clock)
    \o <<",", "S", "i", "g", "n", "e", "d", "H", "e", "a", "d", "e", "r", "s", "=">> \o signedHeaders
    \o <<",", "S", "i", "g", "n", "a", "t", "u", "r", "e", "=">> \o sig

\* S3::format_authorization
format_authorization(s, signedHeaders, sig, date) ==
    S3_ALGO_VALUE \o <<" ", "C", "r", "e", "d", "e", "n", "t", "i", "a", "l", "=">>
    \o credential(s, date)
    \o <<",", "S", "i", "g", "n", "e", "d", "H", "e", "a", "d", "e", "r", "s", "=">> \o signedHeaders
    \o <<",", "S", "i", "g", "n", "a", "t", "u", "r", "e", "=">> \o sig

\* HashMap::insert
HashMap_insert(m, k, v) == [x \in DOMAIN m \cup {k} |-> IF x = k THEN v ELSE m[x]]

\* The fields of generate_presigned_post before the policy is built
PostFields(s, a, date) ==
    LET f1 == HashMap_insert(<<>>, <<"C", "o", "n", "t", "e", "n", "t", "-", "T", "y", "p", "e">>,
                             a.content_type)
        f2 == HashMap_insert(f1, <<"k", "e", "y">>, a.key)
        f3 == HashMap_insert(f2, S3_ALGO_KEY, S3_ALGO_VALUE)
        f4 == HashMap_insert(f3, S3_CRED_KEY, credential(s, date))
        f5 == HashMap_insert(f4, S3_DATE_KEY, FormatYmdTHmsZ(date))
    IN  IF a.acl.ok THEN HashMap_insert(f5, <<"a", "c", "l">>, a.acl.val) ELSE f5

-----------------------------------------------------------------------------
(* Bounds and inputs *)

\* HashMap iterates in an arbitrary order: the model tries the sorted order of
\* the keys rotated by 0 .. MaxOrderShift places
MaxOrderShift == 1

Rotate(q, r) == [i \in 1..Len(q) |-> q[((i - 1 + r) % Len(q)) + 1]]

IterationOrders(m) ==
    LET ks == SortedKeys(DOMAIN m)
    IN  IF ks = <<>> THEN {<<>>}
        ELSE {Rotate(ks, r) : r \in 0..MaxOrderShift}

\* Instants the clock takes: around a second's end and around midnight
Instants == {0, 500, 1000, 86400000}

ExampleS3 ==
    [bucket |-> <<"e", "x", "a", "m", "p", "l", "e", "b", "u", "c", "k", "e", "t">>,
     region |-> <<"u", "s", "-", "e", "a", "s", "t", "-", "1">>,
     endpoint |-> <<"s", "3", ".", "a", "m", "a", "z", "o", "n", "a", "w", "s", ".", "c", "o", "m">>,
     access_key |-> <<"A", "K", "I", "A">>,
     secret_key |-> <<"w", "J", "a", "l", "r">>]

OtherS3 ==
    [bucket |-> <<"b", "2">>,
     region |-> <<"e", "u">>,
     endpoint |-> <<"h", "o", "s", "t">>,
     access_key |-> <<"A", "K">>,
     secret_key |-> <<"s", "k">>]

Configs == {ExampleS3, OtherS3}

None == Err(<<>>)
Some(v) == Ok(v)

PostKeys == {<<"e", "x", "a", "m", "p", "l", "e", ".", "p", "n", "g">>, <<"a", "\"", "b">>}
ContentTypes == {<<"i", "m", "a", "g", "e", "/", "p", "n", "g">>}
ContentLengths == {-11, 10485760, I32_MAX - 10, I32_MAX - 9, I32_MAX}
\* chrono::Duration, in milliseconds
ExpireOns == {1, 1000, 3600000}
Acls == {None, Some(<<"p", "u", "b", "l", "i", "c", "-", "r", "e", "a", "d">>)}

\* Object keys: plain, with a query part, with a fragment
ObjectKeys == {<<"t", "e", "x", "t", ".", "t", "x", "t">>, <<"a", "?", "x", "=", "1">>,
               <<"a", "#", "f">>}
Methods == {<<"H", "E", "A", "D">>, <<"D", "E", "L", "E", "T", "E">>}
ExpiresOns == {3600, -1}

\* Header names and values a caller of the canonical request builder inserts;
\* the last value is not text
MaxHeaders == 2
HeaderNames == {<<"h", "o", "s", "t">>, <<"X", "-", "A", "m", "z", "-", "D", "a", "t", "e">>,
                <<"a", "c", "c", "e", "p", "t">>}
HeaderValues == {<<"v">>, <<" ", "v", " ">>, <<"0xE9">>}

\* Form fields a caller of Conditions::new passes: plain text, a quote, a
\* trailing backslash, an escape sequence, an escaped quote, and a value that
\* closes the string and opens a second member
MaxFields == 2
FieldNames == {<<"k", "e", "y">>, <<"a", "c", "l">>, <<"Z">>}
FieldValues ==
    {<<"v">>, <<>>, <<"a", "\"">>, <<"a", "\\">>, <<"a", "\\", "n", "b">>, <<"a", "\\", "\"">>,
     <<"x", "\"", ",", "\"", "B", "\"", ":", "\"", "y">>}
FieldMaps ==
    UNION {[K -> FieldValues] : K \in {J \in SUBSET FieldNames : Cardinality(J) <= MaxFields}}
Ranges == {<<0, 20>>, <<-1, I32_MAX>>}

\* Strings handed to Signer::sign
SignTexts == {<<>>, <<"a">>, <<"p", "o", "l", "i", "c", "y">>}

-----------------------------------------------------------------------------
(* The state machine *)

\* Text and maps not yet written are empty; a record not yet written is None
Blank == <<>>

Init ==
    /\ s3 \in Configs
    /\ clock \in Instants
    /\ pc = "idle"
    /\ args = None
    /\ now = -1
    /\ fields = Blank
    /\ policy = None
    /\ req = None
    /\ signed_headers = Blank
    /\ string_to_sign = Blank
    /\ sign = Blank
    /\ ret = None
    /\ transport = <<>>

\* Time passes
Tick ==
    /\ \E t \in Instants : t > clock /\ clock' = t
    /\ UNCHANGED <<transport, s3, pc, args, now, fields, policy, req, signed_headers,
                   string_to_sign, sign, ret>>

\* The caller takes the result; the frame is gone
Return ==
    /\ pc = "done"
    /\ pc' = "idle"
    /\ args' = None /\ now' = -1 /\ fields' = Blank /\ policy' = None /\ req' = None
    /\ signed_headers' = Blank /\ string_to_sign' = Blank /\ sign' = Blank /\ ret' = None
    /\ transport' = <<>>
    /\ UNCHANGED <<s3, clock>>

\* s3.generate_presigned_post(key, content_type, content_length, expire_on, acl)
PostCall ==
    /\ pc = "idle"
    /\ \E key \in PostKeys, content_type \in ContentTypes, content_length \in ContentLengths,
          expire_on \in ExpireOns, acl \in Acls :
           args' = [op |-> "generate_presigned_post", key |-> key,
                    content_type |-> content_type, content_length |-> content_length,
                    expire_on |-> expire_on, acl |-> acl]
    /\ pc' = "post_166"
    /\ UNCHANGED <<transport, s3, clock, now, fields, policy, req, signed_headers, string_to_sign,
                   sign, ret>>

\* s3.rs 166-179: read the clock, fill the fields
PostFillFields ==
    /\ pc = "post_166"
    /\ now' = clock
    /\ fields' = PostFields(s3, args, clock)
    /\ pc' = "post_182"
    /\ UNCHANGED <<transport, s3, clock, args, policy, req, signed_headers, string_to_sign, sign, ret>>

\* s3.rs 182: content_length + 10, then Policy::init, which reads the clock
PostPolicyInit ==
    /\ pc = "post_182"
    /\ \E overflow_checks \in BOOLEAN, order \in IterationOrders(fields) :
          LET hi == i32_add(args.content_length, 10, overflow_checks)
              p == IF hi.ok
                   THEN Policy_init(clock, args.expire_on, s3.bucket, <<0, hi.val>>,
                                    fields, order)
                   ELSE hi
          IN  /\ policy' = p
              /\ IF p.ok THEN pc' = "post_183" /\ ret' = ret
                 ELSE pc' = "done" /\ ret' = Panicked
    /\ UNCHANGED <<transport, s3, clock, args, now, fields, req, signed_headers, string_to_sign, sign>>

\* s3.rs 183-192: sign the encoded policy, add policy and signature, return
PostSign ==
    /\ pc = "post_183"
    /\ LET sts == AuthRequestType_string_to_sign([type |-> "PostRequest", policy |-> policy.val])
           signature == Signer_sign(s3.secret_key, s3.region, now, sts)
       IN  /\ string_to_sign' = sts
           /\ IF signature.ok
              THEN /\ sign' = signature.val
                   /\ fields' = HashMap_insert(
                                    HashMap_insert(fields, <<"p", "o", "l", "i", "c", "y">>, sts),
                                    S3_SIGNATURE_KEY, signature.val)
                   /\ ret' = Ok([upload_url |-> private_url(s3), params |-> fields'])
              ELSE /\ sign' = sign
                   /\ fields' = fields
                   /\ ret' = signature
    /\ pc' = "done"
    /\ UNCHANGED <<transport, s3, clock, args, now, policy, req, signed_headers>>

NextPost == Tick \/ Return \/ PostCall \/ PostFillFields \/ PostPolicyInit \/ PostSign

SpecPost == Init /\ [][NextPost]_vars

\* Where prepare_simple_object_method returns to: the test or caller outside
\* the facade, or the `?` of head_object / delete_object (s3.rs 113, 120)
SimpleReturnsTo(a) ==
    IF a.op = "prepare_simple_object_method" THEN "done" ELSE "object_113"

\* s3.prepare_simple_object_method(key, method), as head_object and
\* delete_object call it
SimpleCall ==
    /\ pc = "idle"
    /\ \E key \in ObjectKeys, method \in Methods :
           args' = [op |-> "prepare_simple_object_method", key |-> key, method |-> method]
    /\ pc' = "simple_131"
    /\ UNCHANGED <<transport, s3, clock, now, fields, policy, req, signed_headers, string_to_sign,
                   sign, ret>>

\* s3.rs 131: let now = Utc::now()
SimpleReadClock ==
    /\ pc = "simple_131"
    /\ now' = clock
    /\ pc' = "simple_132"
    /\ UNCHANGED <<transport, s3, clock, args, fields, policy, req, signed_headers, string_to_sign,
                   sign, ret>>

\* A slip: an Authorization header is already in place when the request is
\* handed to the canonicalizer.
SimpleRequest_authorized_first(s, a, date) ==
    LET url == Url_parse(public_host(s), a.key)
        r == Request_new(a.method, url)
        h1 == HeaderMap_insert(r.headers, <<"h", "o", "s", "t">>, url.host)
        h2 == HeaderMap_insert(h1, S3_CONTENT_KEY, payload_hex(r))
        h3 == HeaderMap_insert(h2, S3_DATE_KEY, FormatYmdTHmsZ(date))
        h4 == HeaderMap_insert(h3,
                  <<"A", "u", "t", "h", "o", "r", "i", "z", "a", "t", "i", "o", "n">>,
                  S3_ALGO_VALUE)
    IN  [r EXCEPT !.headers = h4]

\* The request of s3.rs 134-143: host, x-amz-content-sha256 and x-amz-date
SimpleRequest(s, a, date) ==
    LET url == Url_parse(public_host(s), a.key)
        r == Request_new(a.method, url)
        h1 == HeaderMap_insert(r.headers, <<"h", "o", "s", "t">>, url.host)
        h2 == HeaderMap_insert(h1, S3_CONTENT_KEY, payload_hex(r))
        h3 == HeaderMap_insert(h2, S3_DATE_KEY, FormatYmdTHmsZ(date))
    IN  [r EXCEPT !.headers = h3]

\* s3.rs 132-143: format now, build the request and its three headers
SimpleBuildRequest ==
    /\ pc = "simple_132"
    /\ req' = SimpleRequest(s3, args, now)
    /\ pc' = "simple_145"
    /\ UNCHANGED <<transport, s3, clock, args, now, fields, policy, signed_headers, string_to_sign,
                   sign, ret>>

\* s3.rs 145-148: the signed headers and the string to sign
SimpleStringToSign ==
    /\ pc = "simple_145"
    /\ signed_headers' = signed_header(req)
    /\ string_to_sign' =
           AuthRequestType_string_to_sign(
               [type |-> "AuthorizationHeader", req |-> req, region |-> s3.region, date |-> now])
    /\ pc' = "simple_149"
    /\ UNCHANGED <<transport, s3, clock, args, now, fields, policy, req, sign, ret>>

\* s3.rs 149: self.signer().sign(now, &string_to_sign)?
SimpleSign ==
    /\ pc = "simple_149"
    /\ LET r == Signer_sign(s3.secret_key, s3.region, now, string_to_sign)
       IN  IF r.ok THEN sign' = r.val /\ pc' = "simple_150" /\ ret' = ret
           ELSE /\ sign' = sign
                /\ pc' = SimpleReturnsTo(args)
                /\ ret' = r
    /\ UNCHANGED <<transport, s3, clock, args, now, fields, policy, req, signed_headers, string_to_sign>>

\* s3.rs 150-154: the Authorization header; the request is returned
SimpleAuthorize ==
    /\ pc = "simple_150"
    /\ req' = [req EXCEPT !.headers =
                   HeaderMap_insert(@,
                       <<"A", "u", "t", "h", "o", "r", "i", "z", "a", "t", "i", "o", "n">>,
                       format_authorization(s3, signed_headers, sign, now))]
    /\ ret' = Ok(req')
    /\ pc' = SimpleReturnsTo(args)
    /\ UNCHANGED <<transport, s3, clock, args, now, fields, policy, signed_headers, string_to_sign, sign>>

NextSimple ==
    \/ Tick \/ Return \/ SimpleCall \/ SimpleReadClock \/ SimpleBuildRequest
    \/ SimpleStringToSign \/ SimpleSign \/ SimpleAuthorize

SpecSimple == Init /\ [][NextSimple]_vars

\* The outcomes self.client.execute can have: a response of any status, or a
\* reqwest::Error
TransportOutcomes ==
    {Ok([status |-> 200]), Ok([status |-> 404]), Ok([status |-> 500]),
     Err([kind |-> "connect"]), Err([kind |-> "timeout"])}

\* A client that sends the request again when the first attempt fails.
client_execute_retrying(log, request, outcome) ==
    IF outcome.ok THEN Append(log, [request |-> request, outcome |-> outcome])
    ELSE log \o << [request |-> request, outcome |-> outcome],
                   [request |-> request, outcome |-> outcome] >>

\* self.client.execute(req).await: one exchange, with the outcome it had
client_execute(log, request, outcome) ==
    Append(log, [request |-> request, outcome |-> outcome])

\* s3.head_object(key) and s3.delete_object(key): each enters
\* prepare_simple_object_method with its own method
ObjectCall ==
    /\ pc = "idle"
    /\ \E key \in ObjectKeys :
           \/ args' = [op |-> "head_object", key |-> key, method |-> <<"H", "E", "A", "D">>]
           \/ args' = [op |-> "delete_object", key |-> key,
                          method |-> <<"D", "E", "L", "E", "T", "E">>]
    /\ pc' = "simple_131"
    /\ UNCHANGED <<transport, s3, clock, now, fields, policy, req, signed_headers, string_to_sign,
                   sign, ret>>

\* s3.rs 113, 120: let req = self.prepare_simple_object_method(key, ..)?, which
\* turns the InvalidKeyLength of a failed signing into Error::SignError
ObjectPrepared ==
    /\ pc = "object_113"
    /\ IF ret.ok THEN req' = ret.val /\ pc' = "object_114" /\ ret' = ret
       ELSE req' = req /\ pc' = "done" /\ ret' = Err(From_InvalidKeyLength(ret.val))
    /\ UNCHANGED <<transport, s3, clock, args, now, fields, policy, signed_headers, string_to_sign,
                   sign>>

\* s3.rs 114-115, 121-122: let res = self.client.execute(req).await?; Ok(res)
ObjectExecute ==
    /\ pc = "object_114"
    /\ \E outcome \in TransportOutcomes :
           /\ transport' = client_execute(transport, req, outcome)
           /\ ret' = IF outcome.ok THEN Ok(outcome.val)
                     ELSE Err(From_reqwest_Error(outcome.val))
    /\ pc' = "done"
    /\ UNCHANGED <<s3, clock, args, now, fields, policy, req, signed_headers, string_to_sign, sign>>

NextObject ==
    \/ Tick \/ Return \/ ObjectCall \/ SimpleReadClock \/ SimpleBuildRequest
    \/ SimpleStringToSign \/ SimpleSign \/ SimpleAuthorize
    \/ ObjectPrepared \/ ObjectExecute

SpecObject == Init /\ [][NextObject]_vars

\* s3.generate_presigned_get(key, expires_on)
GetCall ==
    /\ pc = "idle"
    /\ \E key \in ObjectKeys, expires_on \in ExpiresOns :
           args' = [op |-> "generate_presigned_get", key |-> key, expires_on |-> expires_on]
    /\ pc' = "get_197"
    /\ UNCHANGED <<transport, s3, clock, now, fields, policy, req, signed_headers, string_to_sign,
                   sign, ret>>

\* s3.rs 197: let now = Utc::now()
GetReadClock ==
    /\ pc = "get_197"
    /\ now' = clock
    /\ pc' = "get_198"
    /\ UNCHANGED <<transport, s3, clock, args, fields, policy, req, signed_headers, string_to_sign,
                   sign, ret>>

\* A slip: the URL is given its X-Amz-Signature parameter, still empty, before
\* the request is signed.
GetUrl_signature_slot(s, a, date) ==
    append_pair(
     append_pair(
      append_pair(
       append_pair(
        append_pair(
         append_pair(query_clear(Url_parse(public_host(s), a.key)),
                     S3_ALGO_KEY, S3_ALGO_VALUE),
         S3_CRED_KEY, credential(s, date)),
        S3_DATE_KEY, FormatYmdTHmsZ(date)),
       S3_EXPIRES_KEY, I32ToString(a.expires_on)),
      S3_SIGNED_HEADERS_KEY, <<"h", "o", "s", "t">>),
     S3_SIGNATURE_KEY, <<>>)

\* The URL of s3.rs 201-213: the key's own query is cleared, five pairs follow
GetUrl(s, a, date) ==
    append_pair(
     append_pair(
      append_pair(
       append_pair(
        append_pair(query_clear(Url_parse(public_host(s), a.key)),
                    S3_ALGO_KEY, S3_ALGO_VALUE),
        S3_CRED_KEY, credential(s, date)),
       S3_DATE_KEY, FormatYmdTHmsZ(date)),
      S3_EXPIRES_KEY, I32ToString(a.expires_on)),
     S3_SIGNED_HEADERS_KEY, <<"h", "o", "s", "t">>)

\* The request of s3.rs 215-217: a GET of the URL with its host header
GetRequest(url) ==
    [Request_new(<<"G", "E", "T">>, url) EXCEPT
         !.headers = HeaderMap_insert(<<>>, <<"h", "o", "s", "t">>, url.host)]

\* s3.rs 198-217: format now, build the URL and the request
GetBuildRequest ==
    /\ pc = "get_198"
    /\ req' = GetRequest(GetUrl(s3, args, now))
    /\ pc' = "get_220"
    /\ UNCHANGED <<transport, s3, clock, args, now, fields, policy, signed_headers, string_to_sign,
                   sign, ret>>

\* s3.rs 220-222: the string to sign
GetStringToSign ==
    /\ pc = "get_220"
    /\ string_to_sign' =
           AuthRequestType_string_to_sign(
               [type |-> "QueryParams", req |-> req, region |-> s3.region, date |-> now])
    /\ pc' = "get_223"
    /\ UNCHANGED <<transport, s3, clock, args, now, fields, policy, req, signed_headers, sign, ret>>

\* The URL of s3.rs 224-226: the signature is appended
GetSignedUrl(url, sig) == append_pair(url, S3_SIGNATURE_KEY, sig)

\* s3.rs 223-228: sign, append X-Amz-Signature, return the URL as text
GetSign ==
    /\ pc = "get_223"
    /\ LET r == Signer_sign(s3.secret_key, s3.region, now, string_to_sign)
       IN  IF r.ok
           THEN /\ sign' = r.val
                /\ req' = [req EXCEPT !.url = GetSignedUrl(@, r.val)]
                /\ ret' = Ok(Url_to_string(req'.url))
           ELSE /\ sign' = sign
                /\ req' = req
                /\ ret' = Err(From_InvalidKeyLength(r.val))
    /\ pc' = "done"
    /\ UNCHANGED <<transport, s3, clock, args, now, fields, policy, signed_headers, string_to_sign>>

NextGet == Tick \/ Return \/ GetCall \/ GetReadClock \/ GetBuildRequest \/ GetStringToSign \/ GetSign

SpecGet == Init /\ [][NextGet]_vars

\* A caller of s3_string_to_sign.rs builds a request of its own
RequestNew ==
    /\ pc = "idle"
    /\ \E key \in ObjectKeys :
           /\ args' = [op |-> "canonical_hex", key |-> key]
           /\ req' = Request_new(<<"G", "E", "T">>, Url_parse(public_host(s3), key))
    /\ pc' = "request"
    /\ UNCHANGED <<transport, s3, clock, now, fields, policy, signed_headers, string_to_sign, sign, ret>>

\* request.headers_mut().insert(name, value)
HeaderInsert ==
    /\ pc = "request"
    /\ Len(req.headers) < MaxHeaders
    /\ \E name \in HeaderNames, value \in HeaderValues :
           req' = [req EXCEPT !.headers = HeaderMap_insert(@, name, value)]
    /\ UNCHANGED <<transport, s3, clock, pc, args, now, fields, policy, signed_headers, string_to_sign,
                   sign, ret>>

\* The request's canonical_header(), signed_header() and canonical_hex(true)
Canonicalize ==
    /\ pc = "request"
    /\ ret' = Ok([canonical_header |-> canonical_header(req),
                  signed_header |-> signed_header(req),
                  canonical_hex |-> canonical_hex(req, TRUE)])
    /\ pc' = "done"
    /\ UNCHANGED <<transport, s3, clock, args, now, fields, policy, req, signed_headers, string_to_sign,
                   sign>>

NextCanon == Return \/ RequestNew \/ HeaderInsert \/ Canonicalize

SpecCanon == Init /\ [][NextCanon]_vars

\* Conditions::new(content_length_range, bucket, fields)
ConditionsNewCall ==
    /\ pc = "idle"
    /\ \E range \in Ranges, fieldMap \in FieldMaps :
           \E order \in IterationOrders(fieldMap) :
               /\ args' = [op |-> "Conditions::new", content_length_range |-> range,
                           bucket |-> s3.bucket, fields |-> fieldMap, order |-> order]
               /\ ret' = Conditions_new(range, s3.bucket, fieldMap, order)
    /\ pc' = "done"
    /\ UNCHANGED <<transport, s3, clock, now, fields, policy, req, signed_headers, string_to_sign, sign>>

\* Policy::init(expire_on, bucket, content_length_range, fields); `now` keeps
\* what its Utc::now() read
PolicyInitCall ==
    /\ pc = "idle"
    /\ \E expire_on \in ExpireOns, range \in Ranges, fieldMap \in FieldMaps :
           \E order \in IterationOrders(fieldMap) :
               /\ args' = [op |-> "Policy::init", expire_on |-> expire_on,
                           content_length_range |-> range, bucket |-> s3.bucket,
                           fields |-> fieldMap, order |-> order]
               /\ ret' = Policy_init(clock, expire_on, s3.bucket, range, fieldMap, order)
    /\ now' = clock
    /\ pc' = "done"
    /\ UNCHANGED <<transport, s3, clock, fields, policy, req, signed_headers, string_to_sign, sign>>

NextConditions == Return \/ ConditionsNewCall

SpecConditions == Init /\ [][NextConditions]_vars

NextPolicy == Tick \/ Return \/ PolicyInitCall

SpecPolicy == Init /\ [][NextPolicy]_vars

\* Signer::new(secret_key, region).sign(date, string_to_sign)
SignCall ==
    /\ pc = "idle"
    /\ \E c \in Configs, r \in Configs, date \in Instants, sts \in SignTexts :
           /\ args' = [op |-> "sign", secret_key |-> c.secret_key, region |-> r.region,
                       date |-> date, string_to_sign |-> sts]
           /\ ret' = Signer_sign(c.secret_key, r.region, date, sts)
    /\ pc' = "done"
    /\ UNCHANGED <<transport, s3, clock, now, fields, policy, req, signed_headers, string_to_sign, sign>>

NextSign == Return \/ SignCall

SpecSign == Init /\ [][NextSign]_vars

-----------------------------------------------------------------------------
(* Properties *)

PostDone == pc = "done" /\ args.op = "generate_presigned_post"

\* C1: a generate_presigned_post that succeeds returns the path-style URL
\* https://{region}.{endpoint}/{bucket} and a field map whose keys are exactly
\* Content-Type, key, X-Amz-Algorithm, X-Amz-Credential, X-Amz-Date, policy and
\* X-Amz-Signature, plus acl exactly when an ACL was supplied.
C1_PostUrlAndKeys ==
    (PostDone /\ ret.ok) =>
        /\ ret.val.upload_url =
               <<"h", "t", "t", "p", "s", ":", "/", "/">> \o s3.region \o <<".">> \o s3.endpoint
               \o <<"/">> \o s3.bucket
        /\ DOMAIN ret.val.params =
               {<<"C", "o", "n", "t", "e", "n", "t", "-", "T", "y", "p", "e">>, <<"k", "e", "y">>,
                S3_ALGO_KEY, S3_CRED_KEY, S3_DATE_KEY, <<"p", "o", "l", "i", "c", "y">>,
                S3_SIGNATURE_KEY}
               \cup (IF args.acl.ok THEN {<<"a", "c", "l">>} ELSE {})

\* A successful call with an ACL, and the other configuration
C1_Witness == PostDone /\ ret.ok /\ args.acl.ok /\ s3 = OtherS3

\* C2: in generate_presigned_post the clock is read once: the policy's
\* expiration is the instant behind the X-Amz-Date field, the credential date
\* and the signing-key date, plus expire_on.
C2_PostOneClockReading ==
    (PostDone /\ ret.ok) =>
        \E t \in Instants :
            /\ ret.val.params[S3_DATE_KEY] = FormatYmdTHmsZ(t)
            /\ ret.val.params[S3_CRED_KEY] = credential(s3, t)
            /\ Ok(ret.val.params[S3_SIGNATURE_KEY])
                   = Signer_sign(s3.secret_key, s3.region, t, string_to_sign)
            /\ policy.val.expiration = to_rfc3339_secs(t + args.expire_on)

SimpleDone == pc = "done" /\ args.op = "prepare_simple_object_method"

\* The value of the header `name`
header_value(headers, name) ==
    LET i == CHOOSE j \in 1..Len(headers) : headers[j][1] = name
    IN  headers[i][2]

\* C3: in prepare_simple_object_method, with the clock free to advance between
\* any two steps, the x-amz-date header, the date of the Authorization
\* credential scope, the timestamp and scope of the string to sign and the date
\* of the signing key all come from one clock reading.
C3_SimpleOneClockReading ==
    (SimpleDone /\ ret.ok) =>
        \E t \in Instants :
            /\ header_value(ret.val.headers, <<"x", "-", "a", "m", "z", "-", "d", "a", "t", "e">>)
                   = FormatYmdTHmsZ(t)
            /\ header_value(ret.val.headers,
                            <<"a", "u", "t", "h", "o", "r", "i", "z", "a", "t", "i", "o", "n">>)
                   = S3_ALGO_VALUE
                     \o <<" ", "C", "r", "e", "d", "e", "n", "t", "i", "a", "l", "=">>
                     \o s3.access_key \o <<"/">> \o scope(s3.region, t)
                     \o <<",", "S", "i", "g", "n", "e", "d", "H", "e", "a", "d", "e", "r", "s", "=">>
                     \o signed_headers
                     \o <<",", "S", "i", "g", "n", "a", "t", "u", "r", "e", "=">> \o sign
            /\ StartsWith(string_to_sign, 1,
                          S3_ALGO_VALUE \o <<"\n">> \o FormatYmdTHmsZ(t) \o <<"\n">>
                          \o scope(s3.region, t) \o <<"\n">>)
            /\ Ok(sign) = Signer_sign(s3.secret_key, s3.region, t, string_to_sign)

\* A call during which the clock passed midnight
C3_Witness == SimpleDone /\ ret.ok /\ DayOf(clock) # DayOf(now)

\* The instant a timestamp of to_rfc3339_secs names
parse_from_rfc3339(text) ==
    LET two(i) == DigitValue(text[i]) * 10 + DigitValue(text[i + 1])
    IN  ((((two(9) - 24) * 24 + two(12)) * 60 + two(15)) * 60 + two(18)) * 1000

\* C4: for every expire duration above zero, durations under one second
\* included, and every capture instant, the expiration the policy stores, as
\* encoded at second precision, is strictly after the captured now.
C4_ExpirationAfterNow ==
    (pc = "done" /\ args.op = "Policy::init" /\ ret.ok /\ args.expire_on > 0) =>
        parse_from_rfc3339(ret.val.expiration) > now

SortedByName(headers) ==
    LET names == SortedKeys({headers[i][1] : i \in 1..Len(headers)})
    IN  [i \in 1..Len(names) |-> <<names[i], header_value(headers, names[i])>>]

\* C5: whatever the order its headers were inserted in, a request's
\* canonical_header is one lower-cased name:trimmed-value line per header in
\* lexicographic order of the lower-cased names, and signed_header is those
\* names in that order joined by ';'.
C5_HeadersSorted ==
    (pc = "done" /\ args.op = "canonical_hex") =>
        LET sorted == SortedByName(req.headers)
        IN  /\ ret.val.signed_header = Join([i \in 1..Len(sorted) |-> sorted[i][1]], <<";">>)
            /\ ret.val.canonical_header =
                   Join([i \in 1..Len(sorted) |->
                            sorted[i][1] \o <<":">>
                            \o trim(IF to_str(sorted[i][2]).ok THEN sorted[i][2] ELSE <<>>)
                            \o <<"\n">>],
                        <<>>)

\* The pieces of s between the separators sep
Split(s, sep) ==
    LET at == {j \in 1..Len(s) : s[j] = sep}
        nth(k) == CHOOSE j \in at : Cardinality({m \in at : m < j}) = k - 1
    IN  [k \in 1..(Cardinality(at) + 1) |->
            SubSeq(s, IF k = 1 THEN 1 ELSE nth(k - 1) + 1,
                      IF k = Cardinality(at) + 1 THEN Len(s) ELSE nth(k) - 1)]

\* The query of a URL's text, as its <<name, value>> pairs in order
QueryPairs(text) ==
    LET beforeFrag == Split(text, "#")[1]
        q == IndexFrom(beforeFrag, "?", 1)
        pairs == Split(SubSeq(beforeFrag, q + 1, Len(beforeFrag)), "&")
    IN  [i \in 1..Len(pairs) |->
            LET e == IndexFrom(pairs[i], "=", 1)
            IN  <<SubSeq(pairs[i], 1, e - 1), SubSeq(pairs[i], e + 1, Len(pairs[i]))>>]

GetDone == pc = "done" /\ args.op = "generate_presigned_get"

\* C6: the URL generate_presigned_get returns has X-Amz-Signature, with a value
\* that is not empty, as its last query parameter, after exactly
\* X-Amz-Algorithm=AWS4-HMAC-SHA256, X-Amz-Credential, X-Amz-Date,
\* X-Amz-Expires and X-Amz-SignedHeaders=host, each once and in that order.
C6_GetQueryOrder ==
    (GetDone /\ ret.ok) =>
        LET q == QueryPairs(ret.val)
        IN  /\ [i \in 1..Len(q) |-> q[i][1]]
                   = <<S3_ALGO_KEY, S3_CRED_KEY, S3_DATE_KEY, S3_EXPIRES_KEY,
                       S3_SIGNED_HEADERS_KEY, S3_SIGNATURE_KEY>>
            /\ q[1][2] = S3_ALGO_VALUE
            /\ q[5][2] = <<"h", "o", "s", "t">>
            /\ q[6][2] # <<>>

\* A URL returned for a key that brought a query of its own
C6_Witness == GetDone /\ ret.ok /\ args.key = <<"a", "?", "x", "=", "1">>

ConditionsDone == pc = "done" /\ args.op = "Conditions::new"

\* C7: for every bucket and every field map, values with a double quote or a
\* backslash included, Conditions::new succeeds and yields 2 + |fields|
\* clauses: the ["content-length-range", min, max] triple, {"bucket": bucket},
\* then one single-key clause {name: value} per field, name and value being
\* the strings supplied.
C7_ConditionsExact ==
    ConditionsDone =>
        /\ ret.ok
        /\ Len(ret.val) = 2 + Cardinality(DOMAIN args.fields)
        /\ ret.val[1] =
               JArr(<<JStr(<<"c", "o", "n", "t", "e", "n", "t", "-", "l", "e", "n", "g", "t", "h",
                             "-", "r", "a", "n", "g", "e">>),
                      JNum(args.content_length_range[1]), JNum(args.content_length_range[2])>>)
        /\ ret.val[2] = JObj(<<"b", "u", "c", "k", "e", "t">> :> JStr(args.bucket))
        /\ \A i \in 1..Len(args.order) :
               ret.val[2 + i] = JObj(args.order[i] :> JStr(args.fields[args.order[i]]))

\* The one key of a single-key exact-match clause
ClauseKey(clause) == CHOOSE k \in DOMAIN clause[2] : TRUE

\* C8: in generate_presigned_post the policy field is exactly the string that
\* was signed: X-Amz-Signature is sign(now, policy field), that string is the
\* encoded policy alone, with no algorithm, timestamp or scope in front, and
\* the policy was built from the fields before policy and X-Amz-Signature
\* joined the map.
C8_PolicyFieldIsSigned ==
    (PostDone /\ ret.ok) =>
        LET params == ret.val.params
            signed == params[<<"p", "o", "l", "i", "c", "y">>]
            before == DOMAIN params \ {<<"p", "o", "l", "i", "c", "y">>, S3_SIGNATURE_KEY}
            clauses == policy.val.conditions
        IN  /\ signed = string_to_sign
            /\ signed = Policy_encode(policy.val)
            /\ Ok(params[S3_SIGNATURE_KEY]) = Signer_sign(s3.secret_key, s3.region, now, signed)
            /\ Len(clauses) = 2 + Cardinality(before)
            /\ {ClauseKey(clauses[2 + i]) : i \in 1..Cardinality(before)} = before
            /\ \A i \in 1..Cardinality(before) :
                   clauses[2 + i] = JObj(ClauseKey(clauses[2 + i])
                                             :> JStr(params[ClauseKey(clauses[2 + i])]))

\* A successful call without an ACL during which the clock moved on
C8_Witness == PostDone /\ ret.ok /\ ~args.acl.ok /\ clock # now

\* No text of the call holds a quote or a backslash
PlainCall ==
    \A t \in {args.key, args.content_type, args.acl.val} :
        \A i \in 1..Len(t) : t[i] \notin {"\"", "\\"}

\* C9: for every content_length of the i32 parameter, generate_presigned_post
\* produces a policy whose content-length-range has minimum 0 and maximum
\* content_length + 10 as a sum of integers: no wrap-around and no failure
\* near the top of the i32 range.
C9_RangeIsSum ==
    (pc \in {"post_183", "done"} /\ args.op = "generate_presigned_post" /\ PlainCall) =>
        /\ policy.ok
        /\ policy.val.conditions[1][1] = "arr"
        /\ policy.val.conditions[1][2][2] = JNum(0)
        /\ policy.val.conditions[1][2][3][2] > args.content_length
        /\ policy.val.conditions[1][2][3][2] - args.content_length = 10

SignDone == pc = "done" /\ args.op = "sign"

\* C10: Signer::sign(date, string_to_sign) is hex(HMAC(kSigning,
\* string_to_sign)), kSigning being the chain HMAC("AWS4" + secret, YYYYMMDD),
\* then region, "s3", "aws4_request", each round keyed by the raw output of the
\* round before; so the secret key, the region, the UTC day of the date and
\* the string to sign determine the result.
C10_SignIsKeyChain ==
    SignDone =>
        LET kDate == HmacSha256(as_bytes(<<"A", "W", "S", "4">> \o args.secret_key),
                                as_bytes(FormatYmd(args.date)))
            kRegion == HmacSha256(kDate, as_bytes(args.region))
            kService == HmacSha256(kRegion, as_bytes(<<"s", "3">>))
            kSigning == HmacSha256(kService,
                            as_bytes(<<"a", "w", "s", "4", "_", "r", "e", "q", "u", "e", "s", "t">>))
        IN  /\ ret = Ok(HexEncode(HmacSha256(kSigning, as_bytes(args.string_to_sign))))
            /\ \A d \in Instants :
                   DayOf(d) = DayOf(args.date) =>
                       Signer_sign(args.secret_key, args.region, d, args.string_to_sign) = ret

\* A signature for an instant inside a day, with key and region of two configurations
C10_Witness ==
    /\ SignDone /\ ret.ok /\ args.date = 500
    /\ args.secret_key = ExampleS3.secret_key /\ args.region = OtherS3.region

CanonDone == pc = "done" /\ args.op = "canonical_hex"

\* C11: when a request carries a header whose value is not representable as
\* text, the canonicalizer reports an encoding error: it produces no canonical
\* string or hash and puts no other value in that header's place.
C11_NonTextHeaderIsError ==
    (CanonDone /\ \E i \in 1..Len(req.headers) : ~to_str(req.headers[i][2]).ok) =>
        ~ret.ok

ObjectOps == {"head_object", "delete_object"}

ObjectDone == pc = "done" /\ args.op \in ObjectOps

\* The request a successful signing leaves: the one whose Authorization header
\* carries the signature of the call's string to sign
SignedRequest(r) ==
    LET sig == Signer_sign(s3.secret_key, s3.region, now, string_to_sign)
    IN  /\ sig.ok
        /\ header_value(r.headers,
               <<"a", "u", "t", "h", "o", "r", "i", "z", "a", "t", "i", "o", "n">>)
             = format_authorization(s3, signed_headers, sig.val, now)

AfterPrefix(s, prefix) == SubSeq(s, Len(prefix) + 1, Len(s))

\* C13: in every request prepare_simple_object_method returns, the SignedHeaders
\* list of the Authorization value is the list the signature was computed
\* over, host;x-amz-content-sha256;x-amz-date in that order; authorization is
\* neither in that list nor in the canonical header block that was signed.
C13_SignedHeadersAreSigned ==
    (SimpleDone /\ ret.ok) =>
        LET r == ret.val
            parts == Split(header_value(r.headers,
                         <<"a", "u", "t", "h", "o", "r", "i", "z", "a", "t", "i", "o", "n">>), ",")
            listedTag == <<"S", "i", "g", "n", "e", "d", "H", "e", "a", "d", "e", "r", "s", "=">>
            sigTag == <<"S", "i", "g", "n", "a", "t", "u", "r", "e", "=">>
            listed == AfterPrefix(parts[2], listedTag)
            payload == header_value(r.headers, to_lowercase(S3_CONTENT_KEY))
            block ==
                <<"h", "o", "s", "t", ":">> \o r.url.host \o <<"\n">>
                \o to_lowercase(S3_CONTENT_KEY) \o <<":">> \o payload \o <<"\n">>
                \o to_lowercase(S3_DATE_KEY) \o <<":">>
                \o header_value(r.headers, to_lowercase(S3_DATE_KEY)) \o <<"\n">>
            signedText ==
                r.method \o <<"\n">> \o r.url.path \o <<"\n">>
                \o query_or_empty(r.url) \o <<"\n">>
                \o block \o <<"\n">> \o listed \o <<"\n">> \o payload
        IN  /\ Len(parts) = 3
            /\ StartsWith(parts[2], 1, listedTag)
            /\ StartsWith(parts[3], 1, sigTag)
            /\ listed = <<"h", "o", "s", "t", ";">> \o to_lowercase(S3_CONTENT_KEY)
                           \o <<";">> \o to_lowercase(S3_DATE_KEY)
            /\ listed = signed_headers
            /\ string_to_sign =
                   string_to_sign_of(HexEncode(Sha256(as_bytes(signedText))), s3.region, now)
            /\ Ok(AfterPrefix(parts[3], sigTag))
                   = Signer_sign(s3.secret_key, s3.region, now, string_to_sign)
            /\ [i \in 1..Len(r.headers) |-> r.headers[i][1]]
                   = <<<<"h", "o", "s", "t">>, to_lowercase(S3_CONTENT_KEY),
                       to_lowercase(S3_DATE_KEY),
                       <<"a", "u", "t", "h", "o", "r", "i", "z", "a", "t", "i", "o", "n">>>>

\* A DELETE request returned with its Authorization header in place
C13_Witness ==
    /\ SimpleDone /\ ret.ok
    /\ args.method = <<"D", "E", "L", "E", "T", "E">>
    /\ \E i \in 1..Len(ret.val.headers) :
           ret.val.headers[i][1] = <<"a", "u", "t", "h", "o", "r", "i", "z", "a", "t", "i", "o", "n">>

\* The query of a URL's text: what stands between its '?' and its '#' or end
QueryOf(text) ==
    LET beforeFrag == Split(text, "#")[1]
    IN  SubSeq(beforeFrag, IndexFrom(beforeFrag, "?", 1) + 1, Len(beforeFrag))

\* C14: in generate_presigned_get the signature is computed over the canonical
\* request of a GET whose query is exactly the five parameters X-Amz-Algorithm,
\* X-Amz-Credential, X-Amz-Date, X-Amz-Expires, X-Amz-SignedHeaders as
\* constructed, whose only signed header is host and whose payload token is
\* UNSIGNED-PAYLOAD; X-Amz-Signature is appended after signing, so the returned
\* URL's query without its last parameter is the signed query.
C14_GetSignsFiveParameters ==
    (GetDone /\ ret.ok) =>
        LET params == Split(QueryOf(ret.val), "&")
            sigTag == S3_SIGNATURE_KEY \o <<"=">>
            signedQuery == Join(SubSeq(params, 1, Len(params) - 1), <<"&">>)
            signedText ==
                <<"G", "E", "T", "\n">> \o req.url.path \o <<"\n">>
                \o signedQuery \o <<"\n">>
                \o <<"h", "o", "s", "t", ":">> \o req.url.host \o <<"\n">>
                \o <<"\n">> \o <<"h", "o", "s", "t">> \o <<"\n">>
                \o <<"U", "N", "S", "I", "G", "N", "E", "D", "-", "P", "A", "Y", "L", "O", "A", "D">>
        IN  /\ Len(params) = 6
            /\ signedQuery =
                   S3_ALGO_KEY \o <<"=">> \o S3_ALGO_VALUE
                   \o <<"&">> \o S3_CRED_KEY \o <<"=">> \o FormEncode(credential(s3, now))
                   \o <<"&">> \o S3_DATE_KEY \o <<"=">> \o FormatYmdTHmsZ(now)
                   \o <<"&">> \o S3_EXPIRES_KEY \o <<"=">> \o I32ToString(args.expires_on)
                   \o <<"&">> \o S3_SIGNED_HEADERS_KEY \o <<"=", "h", "o", "s", "t">>
            /\ string_to_sign =
                   string_to_sign_of(HexEncode(Sha256(as_bytes(signedText))), s3.region, now)
            /\ StartsWith(params[6], 1, sigTag)
            /\ Ok(AfterPrefix(params[6], sigTag))
                   = Signer_sign(s3.secret_key, s3.region, now, string_to_sign)
            /\ StartsWith(ret.val, 1,
                          <<"h", "t", "t", "p", "s", ":", "/", "/">> \o req.url.host
                          \o req.url.path \o <<"?">> \o signedQuery \o <<"&">> \o sigTag)

\* A URL returned for a key with a fragment and a negative lifetime
C14_Witness ==
    GetDone /\ ret.ok /\ args.key = <<"a", "#", "f">> /\ args.expires_on = -1

====
